---- MODULE Spec2Model ----
(***************************************************************************)
(* The brainstem control core of the PiCar-X robot: the life loop          *)
(* (life_loop.py), the link to the brain server (brain_connection.py),     *)
(* the safety reflexes (safety_reflexes.py) and the autonomous fallback    *)
(* (autonomous_fallback.py).                                               *)
(*                                                                         *)
(* Units: battery voltages are in tenths of a volt (10.5 V is 105),        *)
(* distances in centimetres, PWM values as in the source.  Time is a       *)
(* discrete non-decreasing clock `now` read by time.time().  None is the   *)
(* empty sequence and a present value v is <<v>>.                          *)
(***************************************************************************)
EXTENDS Integers, Sequences, FiniteSets, TLC

(***************************************************************************)
(* Bounds of the model.                                                    *)
(***************************************************************************)
\* cycles of the life loop run after the start of a behaviour
MaxCycles == 2
\* largest value of the clock
MaxTime == 3
\* faults injected into hardware calls (communication_errors stays below it)
MaxErrors == 1
\* sessions (websocket objects) ever opened
MaxSessions == 2

(***************************************************************************)
(* Program constants.                                                      *)
(***************************************************************************)
LIFE_LOOP_FREQUENCY == 10
BATTERY_CRITICAL == 105
OBSTACLE_CRITICAL == 10
\* autonomous_fallback.py: near-field avoidance distance, low battery
AVOID_DISTANCE == 30
FALLBACK_BATTERY_LOW == 115
\* MotorCommand's defaults
MOTOR_NEUTRAL == 1500
\* life_loop.py: _attempt_brain_connection
max_attempts == 3
\* life_loop.py: _periodic_brain_reconnection, every 30 seconds
RECONNECT_SECONDS == 30
ReconnectCadence == RECONNECT_SECONDS * LIFE_LOOP_FREQUENCY
\* life_loop.py: _periodic_status_report
STATUS_CADENCE == 50
DETAIL_CADENCE == 300
\* life_loop.py: _brain_interaction keeps the last 100 response times
WINDOW_SIZE == 100
\* life_loop.py: the sleeps of a cycle, in milliseconds: after a safety
\* override, after a fault, and the target period 1.0 / LIFE_LOOP_FREQUENCY
COOLDOWN_MS == 1000
RECOVERY_MS == 500
TARGET_MS == 1000 \div LIFE_LOOP_FREQUENCY

None == << >>
Some(x) == <<x>>
IsNone(o) == o = << >>
Val(o) == o[1]

(***************************************************************************)
(* hardware_interface.py: SensorReading and MotorCommand.                  *)
(***************************************************************************)
SensorReading(b, d) == [battery_voltage |-> b, ultrasonic_distance |-> d]

MotorCommand(l, r, c, b) ==
    [motor_left_pwm |-> l, motor_right_pwm |-> r,
     servo_camera_pwm |-> c, buzzer_active |-> b]

\* the readings the hardware may return: below the critical threshold, exactly
\* at it (which is below the fallback's threshold), exactly at the fallback's
Batteries == {BATTERY_CRITICAL - 1, BATTERY_CRITICAL, FALLBACK_BATTERY_LOW}
Distances == {OBSTACLE_CRITICAL - 1, OBSTACLE_CRITICAL, AVOID_DISTANCE}
Snapshots == {SensorReading(b, d) : b \in Batteries, d \in Distances}

VARIABLES
    \* LifeLoop
    loop_count, brain_connected, isolation_start_time,
    brain_response_times, communication_errors,
    \* BrainConnection
    websocket, connected, connection_attempts, last_successful_contact,
    message_count,
    \* AutonomousFallback.isolation_start_time
    auto_isolation_start,
    \* control position and locals of the running coroutine
    pc, attempt, caller, success, sensor_data, motor_commands, brain_start,
    was_connected, isolation_duration,
    \* environment: the clock, the sessions, the scheduled close tasks
    now, sessions, close_tasks,
    \* history of the current cycle and of the current isolation episode
    cycles, trace, applied, episode_begin, iso_writes, no_attempt_run,
    cadence_cut,
    \* the reply recv() yielded in the current cycle; the work time and the
    \* sleep of the last finished cycle, in milliseconds
    last_reply, loop_time, slept

loopVars == <<loop_count, brain_connected, isolation_start_time,
              brain_response_times, communication_errors>>
linkVars == <<websocket, connected, connection_attempts,
              last_successful_contact, message_count>>
localVars == <<attempt, caller, success, sensor_data, motor_commands,
               brain_start, was_connected, isolation_duration>>
envVars == <<now, sessions, close_tasks>>
histVars == <<cycles, trace, applied, episode_begin, iso_writes, no_attempt_run,
              cadence_cut, last_reply, loop_time, slept>>
vars == <<loopVars, linkVars, auto_isolation_start, pc, localVars, envVars, histVars>>

(***************************************************************************)
(* safety_reflexes.py: SafetyReflexes.immediate_danger.                    *)
(***************************************************************************)
\* a threshold compared with <= instead of <
immediate_danger_inclusive(sensors) ==
    IF sensors.battery_voltage <= BATTERY_CRITICAL THEN TRUE
    ELSE IF sensors.ultrasonic_distance < OBSTACLE_CRITICAL THEN TRUE
    ELSE FALSE

immediate_danger(sensors) ==
    IF sensors.battery_voltage < BATTERY_CRITICAL THEN TRUE
    ELSE IF sensors.ultrasonic_distance < OBSTACLE_CRITICAL THEN TRUE
    ELSE FALSE

(***************************************************************************)
(* autonomous_fallback.py: AutonomousFallback.decide_action.               *)
(***************************************************************************)
avoid_obstacle == MotorCommand(1400, 1600, MOTOR_NEUTRAL, FALSE)
seek_power == MotorCommand(1500, 1500, MOTOR_NEUTRAL, FALSE)
explore == MotorCommand(1530, 1530, MOTOR_NEUTRAL, FALSE)

\* the low battery tested before the obstacle
decide_action_BatteryFirst(sensors) ==
    IF sensors.battery_voltage < FALLBACK_BATTERY_LOW THEN seek_power
    ELSE IF sensors.ultrasonic_distance < AVOID_DISTANCE THEN avoid_obstacle
    ELSE explore

decide_action(sensors) ==
    IF sensors.ultrasonic_distance < AVOID_DISTANCE THEN avoid_obstacle
    ELSE IF sensors.battery_voltage < FALLBACK_BATTERY_LOW THEN seek_power
    ELSE explore

(***************************************************************************)
(* brain_connection.py: the replies of the brain server and their decoding *)
(* in send_sensors_get_commands.                                           *)
(***************************************************************************)
Fields == {"motor_left_pwm", "motor_right_pwm", "servo_camera_pwm", "buzzer_active"}

\* the value the server sends for a field it includes
ReplyValue(f) ==
    CASE f = "motor_left_pwm" -> 1700
      [] f = "motor_right_pwm" -> 1300
      [] f = "servo_camera_pwm" -> 1600
      [] OTHER -> TRUE

\* what recv() yields: a reply of some kind, no reply in time, a closed
\* session, or a payload that cannot be decoded
Replies ==
    {[kind |-> "MOTOR_COMMANDS", data |-> d] : d \in SUBSET Fields}
    \cup {[kind |-> k, data |-> {}] :
              k \in {"ERROR", "OTHER", "TIMEOUT", "CLOSED", "MALFORMED"}}

\* a field of the reply never read
Get_AlwaysDefault(data, f, default) == default

\* motor_data.get(f, default)
Get(data, f, default) == IF f \in data THEN ReplyValue(f) ELSE default

DecodeMotorCommands(data) ==
    MotorCommand(Get(data, "motor_left_pwm", 1500),
                 Get(data, "motor_right_pwm", 1500),
                 Get(data, "servo_camera_pwm", 1500),
                 Get(data, "buzzer_active", FALSE))

(***************************************************************************)
(* The state after construction: LifeLoop.__init__, BrainConnection         *)
(* .__init__, AutonomousFallback.__init__; eternal_consciousness is about  *)
(* to call _attempt_brain_connection.                                      *)
(***************************************************************************)
NoData == SensorReading(0, 0)
SessionIds == 1..MaxSessions

Init ==
    /\ loop_count = 0
    /\ brain_connected = FALSE
    /\ isolation_start_time = None
    /\ brain_response_times = << >>
    /\ communication_errors = 0
    /\ websocket = None
    /\ connected = FALSE
    /\ connection_attempts = 0
    /\ last_successful_contact = 0
    /\ message_count = 0
    /\ auto_isolation_start = None
    /\ pc = "attempt"
    /\ attempt = 0
    /\ caller = "init"
    /\ success = FALSE
    /\ sensor_data = NoData
    /\ motor_commands = None
    /\ brain_start = 0
    /\ was_connected = FALSE
    /\ isolation_duration = None
    /\ now = 1
    /\ sessions = [s \in SessionIds |-> "unused"]
    /\ close_tasks = {}
    /\ cycles = 0
    /\ trace = << >>
    /\ applied = << >>
    /\ episode_begin = None
    /\ iso_writes = 0
    /\ no_attempt_run = 0
    /\ cadence_cut = FALSE
    /\ last_reply = None
    /\ loop_time = 0
    /\ slept = 0

(***************************************************************************)
(* The environment: time passes; a close task scheduled by disconnect()    *)
(* runs while the loop's coroutine is suspended in an await.               *)
(***************************************************************************)
AwaitPoints == {"attempt_sleep", "connect_close", "connect_open",
                "exchange_send", "exchange_recv", "cooldown", "timing", "recover"}

Tick ==
    /\ pc \in AwaitPoints \cup {"loop_top"}
    /\ now < MaxTime
    /\ now' = now + 1
    /\ UNCHANGED <<loopVars, linkVars, auto_isolation_start, pc, localVars,
                   sessions, close_tasks, histVars>>

\* a close task that closes whatever the link's handle is when it runs
CloseTarget_LateBound(task, handle) ==
    IF IsNone(handle) THEN task ELSE Val(handle)

\* asyncio.create_task(self.websocket.close()): the close() of the session
\* that was the link's handle when disconnect() was called
CloseTarget(task, handle) == task

CloseTaskRuns ==
    /\ \E s \in close_tasks :
          /\ sessions' = [sessions EXCEPT ![CloseTarget(s, websocket)] = "closed"]
          /\ close_tasks' = close_tasks \ {s}
    /\ UNCHANGED <<loopVars, linkVars, auto_isolation_start, pc, localVars,
                   now, histVars>>

RunCloseTask ==
    /\ pc \in AwaitPoints
    /\ CloseTaskRuns

(***************************************************************************)
(* brain_connection.py: BrainConnection.connect, called from the initial   *)
(* connection phase and from the periodic reconnection.                    *)
(***************************************************************************)
FreeSessions == {s \in SessionIds : sessions[s] = "unused"}
ConnectOutcomes == {"ok", "timeout", "refused", "error"}

\* a failure that leaves the failure count as it was
ConnectFailed_NoCount ==
    /\ UNCHANGED connection_attempts
    /\ success' = FALSE

\* each except branch of connect(): self.connection_attempts += 1; return False
ConnectFailed ==
    /\ connection_attempts' = connection_attempts + 1
    /\ success' = FALSE

\* if self.websocket: await self.websocket.close()
ConnectClose ==
    /\ pc = "connect_close"
    /\ trace' = Append(trace, "connect")
    /\ IF IsNone(websocket)
       THEN /\ pc' = "connect_open"
            /\ UNCHANGED <<sessions, connection_attempts, success>>
       ELSE \E closed \in BOOLEAN :
               IF closed
               THEN /\ sessions' = [sessions EXCEPT ![Val(websocket)] = "closed"]
                    /\ pc' = "connect_open"
                    /\ UNCHANGED <<connection_attempts, success>>
               ELSE /\ ConnectFailed
                    /\ pc' = "connect_ret"
                    /\ UNCHANGED sessions
    /\ UNCHANGED <<loopVars, websocket, connected, last_successful_contact,
                   message_count, auto_isolation_start, attempt, caller,
                   sensor_data, motor_commands, brain_start, was_connected,
                   isolation_duration, now, close_tasks, cycles, applied,
                   episode_begin, iso_writes, no_attempt_run, cadence_cut,
                   last_reply, loop_time, slept>>

\* self.websocket = await asyncio.wait_for(websockets.connect(url), 5.0)
ConnectOpen ==
    /\ pc = "connect_open"
    /\ \E outcome \in ConnectOutcomes :
          /\ (outcome = "ok") => (FreeSessions # {})
          /\ IF outcome = "ok"
             THEN LET s == CHOOSE x \in FreeSessions :
                               \A y \in FreeSessions : x <= y
                  IN /\ websocket' = Some(s)
                     /\ sessions' = [sessions EXCEPT ![s] = "open"]
                     /\ connected' = TRUE
                     /\ connection_attempts' = 0
                     /\ last_successful_contact' = now
                     /\ success' = TRUE
             ELSE /\ ConnectFailed
                  /\ UNCHANGED <<websocket, sessions, connected,
                                 last_successful_contact>>
    /\ pc' = "connect_ret"
    /\ UNCHANGED <<loopVars, message_count, auto_isolation_start, attempt,
                   caller, sensor_data, motor_commands, brain_start,
                   was_connected, isolation_duration, now, close_tasks, histVars>>

(***************************************************************************)
(* life_loop.py: LifeLoop._attempt_brain_connection.                       *)
(***************************************************************************)
\* the loop run once more than max_attempts
MoreAttempts_OneMore(n) == n <= max_attempts

\* for attempt in range(max_attempts)
MoreAttempts(n) == n < max_attempts

AttemptBrainConnection ==
    /\ pc = "attempt"
    /\ IF MoreAttempts(attempt)
       THEN /\ pc' = "connect_close"
            /\ UNCHANGED <<brain_connected, caller, episode_begin>>
       ELSE /\ brain_connected' = FALSE
            /\ caller' = "loop"
            /\ episode_begin' = Some(now)
            /\ pc' = "loop_top"
    /\ UNCHANGED <<loop_count, isolation_start_time,
                   brain_response_times, communication_errors, linkVars,
                   auto_isolation_start, attempt, success, sensor_data,
                   motor_commands, brain_start, was_connected,
                   isolation_duration, envVars, cycles, trace, applied,
                   iso_writes, no_attempt_run, cadence_cut,
                   last_reply, loop_time, slept>>

AttemptReturn ==
    /\ trace' = << >>
    /\ IF success
       THEN /\ brain_connected' = TRUE
            /\ caller' = "loop"
            /\ pc' = "loop_top"
            /\ UNCHANGED attempt
       ELSE /\ attempt' = attempt + 1
            /\ pc' = IF attempt < max_attempts - 1 THEN "attempt_sleep" ELSE "attempt"
            /\ UNCHANGED <<brain_connected, caller>>
    /\ UNCHANGED <<loop_count, isolation_start_time, brain_response_times,
                   communication_errors, linkVars, auto_isolation_start, success,
                   sensor_data, motor_commands, brain_start, was_connected,
                   isolation_duration, envVars, cycles, applied, episode_begin,
                   iso_writes, no_attempt_run, cadence_cut,
                   last_reply, loop_time, slept>>

\* await asyncio.sleep(2.0) between attempts
AttemptSleep ==
    /\ pc = "attempt_sleep"
    /\ pc' = "attempt"
    /\ UNCHANGED <<loopVars, linkVars, auto_isolation_start, localVars,
                   envVars, histVars>>

(***************************************************************************)
(* life_loop.py: LifeLoop.eternal_consciousness, one cycle of the loop.    *)
(***************************************************************************)
\* a call of the hardware backend that commands the actuators
EmergencyStopCall(source) ==
    [call |-> "emergency_stop", src |-> source, cmd |-> None]
ExecuteCall(source, command) ==
    [call |-> "execute_motor_commands", src |-> source, cmd |-> command]

HardwareOutcomes == {"ok", "fault"}
\* a hardware call may raise while the fault budget lasts
MayRaise(outcome) == (outcome = "fault") => (communication_errors < MaxErrors)

\* the cycle is over (its sleep is done): the next iteration of `while True`
EndCycle ==
    /\ pc' = "loop_top"
    /\ sensor_data' = NoData
    /\ motor_commands' = None
    /\ brain_start' = 0
    /\ trace' = << >>
    /\ applied' = << >>
    /\ last_reply' = None
    /\ no_attempt_run' =
          IF was_connected \/ \E i \in 1..Len(trace) : trace[i] = "connect"
          THEN 0
          ELSE no_attempt_run + 1
    /\ cadence_cut' =
          IF was_connected \/ \E i \in 1..Len(trace) : trace[i] = "connect"
          THEN FALSE
          ELSE cadence_cut \/ (loop_count % ReconnectCadence = 0 /\ pc # "timing")

\* loop_start = time.time(); self.loop_count += 1
BeginCycle ==
    /\ pc = "loop_top"
    /\ cycles < MaxCycles
    /\ cycles' = cycles + 1
    /\ loop_count' = loop_count + 1
    /\ was_connected' = brain_connected
    /\ loop_time' = 0
    /\ slept' = 0
    /\ pc' = "sense"
    /\ UNCHANGED <<brain_connected, isolation_start_time,
                   brain_response_times, communication_errors, linkVars,
                   auto_isolation_start, attempt, caller, success, sensor_data,
                   motor_commands, brain_start, isolation_duration, envVars,
                   trace, applied, episode_begin, iso_writes, no_attempt_run, cadence_cut,
                   last_reply>>

\* the safety check left out of the cycle
AfterSense_NoGate(outcome) == IF outcome = "ok" THEN "autonomous" ELSE "except"

\* the try block after read_sensors(): on to the safety check, or the handler
AfterSense(outcome) == IF outcome = "ok" THEN "gate" ELSE "except"

\* PHASE 1: sensor_data = self.hardware.read_sensors()
ReadSensors ==
    /\ pc = "sense"
    /\ \E outcome \in HardwareOutcomes, reading \in Snapshots :
          /\ MayRaise(outcome)
          /\ sensor_data' = IF outcome = "ok" THEN reading ELSE NoData
          /\ pc' = AfterSense(outcome)
    /\ trace' = Append(trace, "sense")
    /\ UNCHANGED <<loopVars, linkVars, auto_isolation_start, attempt, caller,
                   success, motor_commands, brain_start, was_connected,
                   isolation_duration, envVars, cycles, applied, episode_begin,
                   iso_writes, no_attempt_run, cadence_cut,
                   last_reply, loop_time, slept>>

\* the connection tested before the danger
GateBranch_LinkFirst(danger, is_connected) ==
    IF is_connected THEN "exchange_send"
    ELSE IF danger THEN "estop"
    ELSE "autonomous"

\* the danger ignored
GateBranch_NoDanger(danger, is_connected) ==
    IF is_connected THEN "exchange_send" ELSE "autonomous"

\* the danger handed to the autonomous fallback instead of the full stop
GateBranch_DangerFallback(danger, is_connected) ==
    IF danger THEN "autonomous"
    ELSE IF is_connected THEN "exchange_send"
    ELSE "autonomous"

\* where the cycle goes after the safety check: lines 51 and 58
GateBranch(danger, is_connected) ==
    IF danger THEN "estop"
    ELSE IF is_connected THEN "exchange_send"
    ELSE "autonomous"

\* PHASE 2: if self.safety.immediate_danger(sensor_data)
SafetyCheck ==
    /\ pc = "gate"
    /\ trace' = Append(trace, "gate")
    /\ pc' = GateBranch(immediate_danger(sensor_data), brain_connected)
    /\ UNCHANGED <<loopVars, linkVars, auto_isolation_start, localVars,
                   envVars, cycles, applied, episode_begin, iso_writes,
                   no_attempt_run, cadence_cut,
                   last_reply, loop_time, slept>>

\* self.hardware.emergency_stop() of the safety override
EmergencyStop ==
    /\ pc = "estop"
    /\ applied' = Append(applied, EmergencyStopCall("safety"))
    /\ \E outcome \in HardwareOutcomes :
          /\ MayRaise(outcome)
          /\ pc' = IF outcome = "ok" THEN "cooldown" ELSE "except"
    /\ UNCHANGED <<loopVars, linkVars, auto_isolation_start, localVars,
                   envVars, cycles, trace, episode_begin, iso_writes,
                   no_attempt_run, cadence_cut,
                   last_reply, loop_time, slept>>

\* the time a cycle's work may have taken since loop_start, in milliseconds:
\* less than the target period, exactly the period, twice the period
WorkTimes == {TARGET_MS \div 2, TARGET_MS, 2 * TARGET_MS}

\* the cycle worked for `work` and then sleeps for `sleep` before the next
CycleSleep(work, sleep) ==
    /\ loop_time' = work
    /\ slept' = sleep

\* await asyncio.sleep(1.0); continue
Cooldown ==
    /\ pc = "cooldown"
    /\ \E work \in WorkTimes : CycleSleep(work, COOLDOWN_MS)
    /\ EndCycle
    /\ UNCHANGED <<loopVars, linkVars, auto_isolation_start, attempt, caller,
                   success, was_connected, isolation_duration, envVars, cycles,
                   episode_begin, iso_writes>>

(***************************************************************************)
(* PHASE 3, connected: LifeLoop._brain_interaction around                  *)
(* BrainConnection.send_sensors_get_commands.                              *)
(***************************************************************************)
\* the newest sample dropped from a full window instead of the oldest
PushSample_DropsNewest(window, sample) ==
    IF Len(window) >= WINDOW_SIZE THEN window ELSE Append(window, sample)

\* self.brain_response_times.append(t); pop(0) beyond the last 100
PushSample(window, sample) ==
    LET longer == Append(window, sample)
    IN IF Len(longer) > WINDOW_SIZE THEN Tail(longer) ELSE longer

\* the result of the exchange applied without the test for None
AfterExchange_NoCheck(command) == "apply_brain"

\* an exchange without a command answered by the fallback alone, the loss
\* of the session not handled
AfterExchange_KeepsLink(command) ==
    IF IsNone(command) THEN "autonomous" ELSE "apply_brain"

\* `if motor_commands:` at line 60
AfterExchange(command) ==
    IF IsNone(command) THEN "disconnect" ELSE "apply_brain"

\* the tail of _brain_interaction once send_sensors_get_commands returned
BrainInteractionReturn(command) ==
    /\ brain_response_times' = PushSample(brain_response_times, now - brain_start)
    /\ motor_commands' = command
    /\ pc' = AfterExchange(command)

SendOutcomes == {"ok", "closed", "error"}

\* brain_start = time.time(); the precheck and `await self.websocket.send(...)`
ExchangeSend ==
    /\ pc = "exchange_send"
    /\ IF ~connected \/ IsNone(websocket)
       THEN /\ trace' = trace \o <<"exchange", "NOT_CONNECTED">>
            /\ brain_start' = now
            /\ brain_response_times' = PushSample(brain_response_times, 0)
            /\ motor_commands' = None
            /\ pc' = AfterExchange(None)
            /\ UNCHANGED <<connected, sessions>>
       ELSE \E outcome \in SendOutcomes :
               CASE outcome = "ok" ->
                      /\ trace' = Append(trace, "exchange")
                      /\ brain_start' = now
                      /\ pc' = "exchange_recv"
                      /\ UNCHANGED <<connected, sessions, brain_response_times,
                                     motor_commands>>
                 [] outcome = "closed" ->
                      /\ trace' = trace \o <<"exchange", "SEND_CLOSED">>
                      /\ brain_start' = now
                      /\ connected' = FALSE
                      /\ sessions' = [sessions EXCEPT ![Val(websocket)] = "closed"]
                      /\ brain_response_times' = PushSample(brain_response_times, 0)
                      /\ motor_commands' = None
                      /\ pc' = AfterExchange(None)
                 [] OTHER ->
                      /\ trace' = trace \o <<"exchange", "SEND_ERROR">>
                      /\ brain_start' = now
                      /\ connected' = FALSE
                      /\ brain_response_times' = PushSample(brain_response_times, 0)
                      /\ motor_commands' = None
                      /\ pc' = AfterExchange(None)
                      /\ UNCHANGED sessions
    /\ UNCHANGED <<loop_count, brain_connected, isolation_start_time, communication_errors, websocket,
                   connection_attempts, last_successful_contact, message_count,
                   auto_isolation_start, attempt, caller, success, sensor_data,
                   was_connected, isolation_duration, now, close_tasks, cycles,
                   applied, episode_begin, iso_writes, no_attempt_run, cadence_cut,
                   last_reply, loop_time, slept>>

\* every reply without a command taken for a lost session
KeepsSession_OnlyCommands(kind) == kind = "MOTOR_COMMANDS"

\* the reply kinds after which the link is still marked connected
KeepsSession(kind) == kind \in {"MOTOR_COMMANDS", "ERROR", "OTHER", "TIMEOUT"}

\* what send_sensors_get_commands returns for a reply
ExchangeResult(reply) ==
    IF reply.kind = "MOTOR_COMMANDS"
    THEN Some(DecodeMotorCommands(reply.data))
    ELSE None

\* `await asyncio.wait_for(self.websocket.recv(), timeout=0.5)` and the decoding
ExchangeRecv ==
    /\ pc = "exchange_recv"
    /\ \E reply \in Replies :
          /\ connected' = KeepsSession(reply.kind)
          /\ sessions' = IF reply.kind = "CLOSED"
                         THEN [sessions EXCEPT ![Val(websocket)] = "closed"]
                         ELSE sessions
          /\ message_count' = IF reply.kind = "MOTOR_COMMANDS"
                              THEN message_count + 1 ELSE message_count
          /\ last_successful_contact' = IF reply.kind = "MOTOR_COMMANDS"
                                        THEN now ELSE last_successful_contact
          /\ BrainInteractionReturn(ExchangeResult(reply))
          /\ trace' = Append(trace, reply.kind)
          /\ last_reply' = Some(reply)
    /\ UNCHANGED <<loop_count, brain_connected, isolation_start_time, communication_errors, websocket,
                   connection_attempts, auto_isolation_start, attempt, caller,
                   success, sensor_data, brain_start, was_connected,
                   isolation_duration, now, close_tasks, cycles, applied,
                   episode_begin, iso_writes, no_attempt_run, cadence_cut,
                   loop_time, slept>>

\* self.hardware.execute_motor_commands(motor_commands) of the brain's command
ApplyBrain ==
    /\ pc = "apply_brain"
    /\ applied' = Append(applied, ExecuteCall("brain", motor_commands))
    /\ \E outcome \in HardwareOutcomes :
          /\ MayRaise(outcome)
          /\ IF outcome = "ok"
             THEN /\ isolation_start_time' = None
                  /\ pc' = "status"
             ELSE /\ pc' = "except"
                  /\ UNCHANGED isolation_start_time
    /\ UNCHANGED <<loop_count, brain_connected, brain_response_times,
                   communication_errors, linkVars, auto_isolation_start,
                   localVars, envVars, cycles, trace, episode_begin, iso_writes,
                   no_attempt_run, cadence_cut,
                   last_reply, loop_time, slept>>

(***************************************************************************)
(* life_loop.py: LifeLoop._handle_brain_disconnect, with                   *)
(* BrainConnection.disconnect.                                             *)
(***************************************************************************)
\* the isolation timer never started
StartIsolationTimer_Never(start, time) == start

\* if self.isolation_start_time is None: self.isolation_start_time = time.time()
StartIsolationTimer(start, time) == IF IsNone(start) THEN Some(time) ELSE start

HandleBrainDisconnect ==
    /\ pc = "disconnect"
    /\ trace' = Append(trace, "disconnect")
    /\ IF brain_connected
       THEN /\ brain_connected' = FALSE
            /\ close_tasks' = IF IsNone(websocket) THEN close_tasks
                              ELSE close_tasks \cup {Val(websocket)}
            /\ connected' = FALSE
            /\ isolation_start_time' = StartIsolationTimer(isolation_start_time, now)
            /\ episode_begin' = Some(now)
            /\ iso_writes' =
                  IF isolation_start_time' # isolation_start_time THEN 1 ELSE 0
       ELSE UNCHANGED <<brain_connected, close_tasks, connected,
                        isolation_start_time, episode_begin, iso_writes>>
    /\ pc' = "autonomous"
    /\ UNCHANGED <<loop_count, brain_response_times,
                   communication_errors, websocket, connection_attempts,
                   last_successful_contact, message_count, auto_isolation_start,
                   localVars, now, sessions, cycles, applied, no_attempt_run,
                   cadence_cut,
                   last_reply, loop_time, slept>>

(***************************************************************************)
(* PHASE 3, autonomous: AutonomousFallback.decide_action and its command.  *)
(***************************************************************************)
Autonomous ==
    /\ pc = "autonomous"
    /\ trace' = Append(trace, "fallback")
    /\ auto_isolation_start' =
          IF IsNone(auto_isolation_start) THEN Some(now) ELSE auto_isolation_start
    /\ motor_commands' = Some(decide_action(sensor_data))
    /\ pc' = "apply_auto"
    /\ UNCHANGED <<loopVars, linkVars, attempt, caller, success, sensor_data,
                   brain_start, was_connected, isolation_duration, envVars,
                   cycles, applied, episode_begin, iso_writes, no_attempt_run, cadence_cut,
                   last_reply, loop_time, slept>>

\* the periodic reconnection run after every fallback command
AfterAutonomous_AlwaysReconnect(started_connected) == "reconnect"

\* after the fallback's command: line 69 goes on to the status report, line 73
\* to the periodic reconnection
AfterAutonomous(started_connected) ==
    IF started_connected THEN "status" ELSE "reconnect"

ApplyAuto ==
    /\ pc = "apply_auto"
    /\ applied' = Append(applied, ExecuteCall("fallback", motor_commands))
    /\ \E outcome \in HardwareOutcomes :
          /\ MayRaise(outcome)
          /\ pc' = IF outcome = "ok" THEN AfterAutonomous(was_connected)
                   ELSE "except"
    /\ UNCHANGED <<loopVars, linkVars, auto_isolation_start, localVars,
                   envVars, cycles, trace, episode_begin, iso_writes,
                   no_attempt_run, cadence_cut,
                   last_reply, loop_time, slept>>

(***************************************************************************)
(* life_loop.py: LifeLoop._periodic_brain_reconnection.                    *)
(***************************************************************************)
\* the cadence counted from the wrong cycle
ReconnectDue_OffByOne(count) == count % ReconnectCadence = 1

\* the periodic reconnection never due
ReconnectDue_Never(count) == FALSE

ReconnectDue(count) == count % ReconnectCadence = 0

PeriodicReconnection ==
    /\ pc = "reconnect"
    /\ IF ReconnectDue(loop_count)
       THEN /\ caller' = "reconnect"
            /\ pc' = "connect_close"
       ELSE /\ pc' = "status"
            /\ UNCHANGED caller
    /\ UNCHANGED <<loopVars, linkVars, auto_isolation_start, attempt, success,
                   sensor_data, motor_commands, brain_start, was_connected,
                   isolation_duration, envVars, histVars>>

\* time.time() - (self.isolation_start_time or time.time())
IsolationDuration(time, start) ==
    time - (IF IsNone(start) THEN time ELSE Val(start))

ReconnectReturn ==
    /\ IF success
       THEN /\ brain_connected' = TRUE
            /\ isolation_duration' =
                  Some(IsolationDuration(now, isolation_start_time))
            /\ isolation_start_time' = None
            /\ episode_begin' = None
            /\ iso_writes' = 0
       ELSE UNCHANGED <<brain_connected, isolation_duration, isolation_start_time,
                        episode_begin, iso_writes>>
    /\ caller' = "loop"
    /\ pc' = "status"
    /\ UNCHANGED <<loop_count, brain_response_times, communication_errors,
                   linkVars, auto_isolation_start, attempt, success, sensor_data,
                   motor_commands, brain_start, was_connected, envVars,
                   cycles, trace, applied, no_attempt_run,
                   cadence_cut,
                   last_reply, loop_time, slept>>

(***************************************************************************)
(* PHASE 4 and 5: _periodic_status_report and _maintain_loop_timing.       *)
(***************************************************************************)
StatusDue(count) == count % STATUS_CADENCE = 0
DetailDue(count) == count % DETAIL_CADENCE = 0

\* a report that takes the cycle to the fault handler whatever its queries do
AfterStatus_AlwaysFault(outcome) == "except"

\* _periodic_status_report returns to line 79, or a query it made raised
AfterStatus(outcome) == IF outcome = "ok" THEN "timing" ELSE "except"

\* get_hardware_info() and get_status() are the calls that may raise
PeriodicStatusReport ==
    /\ pc = "status"
    /\ trace' = IF StatusDue(loop_count) \/ DetailDue(loop_count)
                THEN Append(trace, "status") ELSE trace
    /\ \E outcome \in HardwareOutcomes :
          /\ MayRaise(outcome)
          /\ (outcome = "fault") => (StatusDue(loop_count) \/ DetailDue(loop_count))
          /\ pc' = AfterStatus(outcome)
    /\ UNCHANGED <<loopVars, linkVars, auto_isolation_start, localVars,
                   envVars, cycles, applied, episode_begin, iso_writes,
                   no_attempt_run, cadence_cut,
                   last_reply, loop_time, slept>>

\* the timing step never sleeping
RemainingSleep_None(work) == 0

\* if loop_time < target_time: await asyncio.sleep(target_time - loop_time)
RemainingSleep(work) == IF work < TARGET_MS THEN TARGET_MS - work ELSE 0

\* loop_time = time.time() - loop_start, then the sleep or no wait at all
MaintainLoopTiming ==
    /\ pc = "timing"
    /\ \E work \in WorkTimes : CycleSleep(work, RemainingSleep(work))
    /\ EndCycle
    /\ UNCHANGED <<loopVars, linkVars, auto_isolation_start, attempt, caller,
                   success, was_connected, isolation_duration, envVars, cycles,
                   episode_begin, iso_writes>>

(***************************************************************************)
(* `except Exception` of the cycle: lines 84 to 88.  A fault raised by     *)
(* emergency_stop() here leaves the while loop.                            *)
(***************************************************************************)
HandleCycleFault ==
    /\ pc = "except"
    /\ applied' = Append(applied, EmergencyStopCall("fault"))
    /\ \E outcome \in HardwareOutcomes :
          /\ MayRaise(outcome)
          /\ IF outcome = "ok"
             THEN /\ communication_errors' = communication_errors + 1
                  /\ pc' = "recover"
             ELSE /\ pc' = "crashed"
                  /\ UNCHANGED communication_errors
    /\ UNCHANGED <<loop_count, brain_connected, isolation_start_time, brain_response_times, linkVars,
                   auto_isolation_start, localVars, envVars, cycles, trace,
                   episode_begin, iso_writes, no_attempt_run, cadence_cut,
                   last_reply, loop_time, slept>>

\* await asyncio.sleep(0.5)
Recover ==
    /\ pc = "recover"
    /\ \E work \in WorkTimes : CycleSleep(work, RECOVERY_MS)
    /\ EndCycle
    /\ UNCHANGED <<loopVars, linkVars, auto_isolation_start, attempt, caller,
                   success, was_connected, isolation_duration, envVars, cycles,
                   episode_begin, iso_writes>>

(***************************************************************************)
(* main.py: SIGINT runs signal_handler, whose sys.exit(0) raises           *)
(* SystemExit in the main thread wherever the coroutine is; it passes the  *)
(* loop's `except Exception` and leaves asyncio.run(); main() handles      *)
(* KeyboardInterrupt only, where it would call hardware.shutdown().  The   *)
(* frame of the coroutine is gone with the exit.                           *)
(***************************************************************************)
RaisedBySignalHandler == "SystemExit"
MainCatches(exception) == exception = "KeyboardInterrupt"
ShutdownCall == [call |-> "shutdown", src |-> "main", cmd |-> None]

SignalHandler ==
    /\ pc \notin {"crashed", "exited"}
    /\ pc' = "exited"
    /\ applied' = IF MainCatches(RaisedBySignalHandler)
                  THEN <<ShutdownCall>> ELSE << >>
    /\ sensor_data' = NoData
    /\ motor_commands' = None
    /\ brain_start' = 0
    /\ trace' = << >>
    /\ last_reply' = None
    /\ UNCHANGED <<loopVars, linkVars, auto_isolation_start, attempt, caller,
                   success, was_connected, isolation_duration, envVars, cycles,
                   episode_begin, iso_writes, no_attempt_run, cadence_cut,
                   loop_time, slept>>

\* connect() returns to the caller that awaited it
ConnectReturn ==
    /\ pc = "connect_ret"
    /\ IF caller = "init" THEN AttemptReturn ELSE ReconnectReturn

(***************************************************************************)
(* The program from construction.                                          *)
(***************************************************************************)
Cycle ==
    \/ BeginCycle
    \/ ReadSensors
    \/ SafetyCheck
    \/ EmergencyStop
    \/ Cooldown
    \/ ExchangeSend
    \/ ExchangeRecv
    \/ ApplyBrain
    \/ HandleBrainDisconnect
    \/ Autonomous
    \/ ApplyAuto
    \/ PeriodicReconnection
    \/ ConnectClose
    \/ ConnectOpen
    \/ ConnectReturn
    \/ PeriodicStatusReport
    \/ MaintainLoopTiming
    \/ HandleCycleFault
    \/ Recover
    \/ Tick
    \/ RunCloseTask
    \/ SignalHandler

Next ==
    \/ AttemptBrainConnection
    \/ AttemptSleep
    \/ Cycle

Spec == Init /\ [][Next]_vars

(***************************************************************************)
(* The program shortly before the reconnection cadence: the state at the   *)
(* top of the loop after LateStart cycles in which nothing failed, either  *)
(* connected since the initial phase (an exchange answered in every cycle, *)
(* the oldest of the window in one step of the clock, the others faster)   *)
(* or isolated since the initial phase failed (three refused attempts at   *)
(* time 1).                                                                *)
(***************************************************************************)
LateStart == ReconnectCadence - 2

InitLate ==
    /\ loop_count = LateStart
    /\ brain_connected \in BOOLEAN
    /\ isolation_start_time = None
    /\ brain_response_times =
          IF brain_connected
          THEN [i \in 1..WINDOW_SIZE |-> IF i = 1 THEN 1 ELSE 0]
          ELSE << >>
    /\ communication_errors = 0
    /\ websocket = IF brain_connected THEN Some(1) ELSE None
    /\ connected = brain_connected
    /\ connection_attempts = IF brain_connected THEN 0 ELSE max_attempts
    /\ last_successful_contact = IF brain_connected THEN 2 ELSE 0
    /\ message_count = IF brain_connected THEN LateStart ELSE 0
    /\ auto_isolation_start = IF brain_connected THEN None ELSE Some(1)
    /\ pc = "loop_top"
    /\ attempt = IF brain_connected THEN 0 ELSE max_attempts
    /\ caller = "loop"
    /\ success = brain_connected
    /\ sensor_data = NoData
    /\ motor_commands = None
    /\ brain_start = 0
    /\ was_connected = brain_connected
    /\ isolation_duration = None
    /\ now = 2
    /\ sessions = [s \in SessionIds |->
                      IF brain_connected /\ s = 1 THEN "open" ELSE "unused"]
    /\ close_tasks = {}
    /\ cycles = 0
    /\ trace = << >>
    /\ applied = << >>
    /\ episode_begin = IF brain_connected THEN None ELSE Some(1)
    /\ iso_writes = 0
    /\ no_attempt_run = IF brain_connected THEN 0 ELSE LateStart
    /\ cadence_cut = FALSE
    /\ last_reply = None
    /\ loop_time = 0
    /\ slept = TARGET_MS

SpecLate == InitLate /\ [][Cycle]_vars

(***************************************************************************)
(* The program from either start: from construction, and from shortly      *)
(* before the reconnection cadence.                                        *)
(***************************************************************************)
InitBoth == Init \/ InitLate

SpecBoth == InitBoth /\ [][Next]_vars

(***************************************************************************)
(* The program with its scheduling.  The coroutine is the only task of the *)
(* event loop besides the close tasks, so a step of its own code, a sleep  *)
(* and an await under asyncio.wait_for always end.  The two awaits without *)
(* a timeout, `await self.websocket.close()` in connect() and              *)
(* `await self.websocket.send(...)` in send_sensors_get_commands, end when *)
(* the peer lets them: nothing makes them.                                 *)
(***************************************************************************)
ProgramStep ==
    \/ AttemptBrainConnection
    \/ AttemptSleep
    \/ BeginCycle
    \/ ReadSensors
    \/ SafetyCheck
    \/ EmergencyStop
    \/ Cooldown
    \/ (ExchangeSend /\ (~connected \/ IsNone(websocket)))
    \/ ExchangeRecv
    \/ ApplyBrain
    \/ HandleBrainDisconnect
    \/ Autonomous
    \/ ApplyAuto
    \/ PeriodicReconnection
    \/ (ConnectClose /\ IsNone(websocket))
    \/ ConnectOpen
    \/ ConnectReturn
    \/ PeriodicStatusReport
    \/ MaintainLoopTiming
    \/ HandleCycleFault
    \/ Recover

SpecLive == Init /\ [][Next]_vars /\ WF_vars(ProgramStep)

(***************************************************************************)
(* The start of the program: the initial connection phase and the first    *)
(* cycle of the loop, with no shutdown requested meanwhile, scheduled as   *)
(* above.                                                                  *)
(***************************************************************************)
StartStep ==
    /\ Next
    /\ cycles' <= 1
    /\ pc' # "exited"

SpecStart == Init /\ [][StartStep]_vars /\ WF_vars(ProgramStep /\ StartStep)

(***************************************************************************)
(* The program shortly before the reconnection cadence with a brain server *)
(* that recovers: the first cycle runs against any environment short of a  *)
(* shutdown request or a fault raised inside the fault handler; from the   *)
(* second cycle on the sensors report no danger, no hardware call raises,  *)
(* connect() is accepted (the close of the previous handle and the opening *)
(* of the session both succeed) and every exchange is answered in time by  *)
(* a MOTOR_COMMANDS reply.  Every await of the coroutine ends.             *)
(***************************************************************************)
\* the cycle of the reconnection cadence, counted from the start
GoodFrom == ReconnectCadence - LateStart

GoodEnvironment ==
    /\ ~(sensor_data' # NoData /\ immediate_danger(sensor_data'))
    /\ pc' # "except"
    /\ (pc = "connect_close" /\ pc' # pc) => (pc' = "connect_open")
    /\ (pc = "connect_open" /\ pc' # pc) => success'
    /\ (pc = "exchange_send" /\ pc' # pc) => (pc' = "exchange_recv")
    /\ (pc = "exchange_recv" /\ pc' # pc) =>
          (last_reply' # None /\ Val(last_reply').kind = "MOTOR_COMMANDS")

GoodStep ==
    /\ Cycle
    /\ pc' \notin {"exited", "crashed"}
    /\ (cycles' >= GoodFrom) => GoodEnvironment

SpecGood == InitLate /\ [][GoodStep]_vars /\ WF_vars(GoodStep /\ pc' # pc)

(***************************************************************************)
(* The program shortly before the reconnection cadence, with the event     *)
(* loop that runs the close tasks.  A close task may run at any await of   *)
(* the coroutine.  Beyond the modelled cycles the loop goes on, and a      *)
(* close task still scheduled then runs at its next suspension; a task     *)
(* that is ready is not left out for ever.                                 *)
(***************************************************************************)
RunCloseTaskLater ==
    /\ pc = "loop_top"
    /\ cycles = MaxCycles
    /\ CloseTaskRuns

SchedNext ==
    \/ Cycle
    \/ RunCloseTaskLater

SpecSched ==
    /\ InitLate
    /\ [][SchedNext]_vars
    /\ WF_vars(ProgramStep)
    /\ WF_vars(CloseTaskRuns /\ SchedNext)

(***************************************************************************)
(* brain_connection.py: BrainConnection.disconnect called on its own, on   *)
(* a link in any of its states, from a context in which the close can be   *)
(* scheduled or not (asyncio.create_task raises RuntimeError without a     *)
(* running event loop, before line 144 is reached).                        *)
(***************************************************************************)
ScheduleOutcomes == {"scheduled", "not_scheduled"}

DisconnectCall ==
    /\ pc = "disconnect_call"
    /\ \E outcome \in ScheduleOutcomes :
          IF IsNone(websocket)
          THEN /\ connected' = FALSE
               /\ pc' = "disconnect_done"
               /\ UNCHANGED close_tasks
          ELSE IF outcome = "scheduled"
               THEN /\ close_tasks' = close_tasks \cup {Val(websocket)}
                    /\ connected' = FALSE
                    /\ pc' = "disconnect_done"
               ELSE /\ pc' = "disconnect_raised"
                    /\ UNCHANGED <<close_tasks, connected>>
    /\ UNCHANGED <<loopVars, websocket, connection_attempts,
                   last_successful_contact, message_count,
                   auto_isolation_start, localVars, now, sessions, histVars>>

\* the scheduled websocket.close() runs later and closes the session or fails
CloseTaskOutcome ==
    /\ pc = "disconnect_done"
    /\ \E s \in close_tasks, closed \in BOOLEAN :
          /\ sessions' = IF closed THEN [sessions EXCEPT ![s] = "closed"]
                         ELSE sessions
          /\ close_tasks' = close_tasks \ {s}
    /\ UNCHANGED <<loopVars, linkVars, auto_isolation_start, pc, localVars,
                   now, histVars>>

\* the link as connect(), the exchange and time may have left it
InitDisconnect ==
    /\ loop_count = 0
    /\ brain_connected \in BOOLEAN
    /\ isolation_start_time = None
    /\ brain_response_times = << >>
    /\ communication_errors = 0
    /\ websocket \in {None} \cup {Some(s) : s \in SessionIds}
    /\ connected \in BOOLEAN
    /\ connected => ~IsNone(websocket)
    /\ connection_attempts \in 0..max_attempts
    /\ connected => connection_attempts = 0
    /\ last_successful_contact \in 0..1
    /\ message_count \in 0..1
    /\ auto_isolation_start = None
    /\ pc = "disconnect_call"
    /\ attempt = 0
    /\ caller = "loop"
    /\ success = FALSE
    /\ sensor_data = NoData
    /\ motor_commands = None
    /\ brain_start = 0
    /\ was_connected = brain_connected
    /\ isolation_duration = None
    /\ now \in 1..MaxTime
    /\ sessions \in [SessionIds -> {"unused", "open", "closed"}]
    /\ \A s \in SessionIds :
          (sessions[s] = "unused") <=> (IsNone(websocket) \/ s > Val(websocket))
    /\ \A s \in SessionIds :
          (sessions[s] = "open") => (websocket = Some(s))
    /\ close_tasks = {}
    /\ cycles = 0
    /\ trace = << >>
    /\ applied = << >>
    /\ episode_begin = None
    /\ iso_writes = 0
    /\ no_attempt_run = 0
    /\ cadence_cut = FALSE
    /\ last_reply = None
    /\ loop_time = 0
    /\ slept = 0

DisconnectNext ==
    \/ DisconnectCall
    \/ CloseTaskOutcome

SpecDisconnect == InitDisconnect /\ [][DisconnectNext]_vars

(***************************************************************************)
(* Vocabulary of the properties.                                           *)
(***************************************************************************)
InTrace(e) == \E i \in 1..Len(trace) : trace[i] = e
InitialPhase == caller = "init"
HasSnapshot == sensor_data # NoData
SnapshotCritical ==
    \/ sensor_data.battery_voltage < BATTERY_CRITICAL
    \/ sensor_data.ultrasonic_distance < OBSTACLE_CRITICAL
\* the cycle has done its work and is about to sleep before the next one
CycleEndPcs == {"cooldown", "timing", "recover"}
LinkEvents == {"exchange", "connect", "fallback", "disconnect"}

(***************************************************************************)
(* C1: in a cycle whose snapshot is below a critical threshold the loop    *)
(* calls emergency_stop() and, in that cycle, makes no exchange and no     *)
(* connect, does not ask the fallback and hands the hardware no other      *)
(* command, connected or not.                                              *)
(***************************************************************************)
C1_DangerCycleOnlyStops ==
    (HasSnapshot /\ SnapshotCritical) =>
        /\ ~InTrace("exchange")
        /\ ~InTrace("connect")
        /\ ~InTrace("fallback")
        /\ \A i \in 1..Len(applied) : applied[i].call = "emergency_stop"
        /\ (pc \notin {"gate", "estop"}) =>
               (Len(applied) >= 1 /\ applied[1] = EmergencyStopCall("safety"))

C1_Witness ==
    /\ pc = "cooldown"
    /\ brain_connected
    /\ SnapshotCritical
    /\ applied = <<EmergencyStopCall("safety")>>

(***************************************************************************)
(* C2: immediate_danger(snapshot) is true exactly when the battery voltage *)
(* is below BATTERY_CRITICAL or the distance below OBSTACLE_CRITICAL; a    *)
(* value exactly at a threshold is no danger.                              *)
(***************************************************************************)
C2_DangerIffBelowThreshold ==
    HasSnapshot => (immediate_danger(sensor_data) <=> SnapshotCritical)

C2_Witness ==
    /\ sensor_data = SensorReading(BATTERY_CRITICAL, OBSTACLE_CRITICAL)
    /\ InTrace("gate")
    /\ pc \in {"exchange_send", "autonomous"}

(***************************************************************************)
(* C3, as claimed: every cycle evaluates the safety check, and no cycle    *)
(* performs a network operation, a fallback decision or an actuation       *)
(* without having evaluated it first.                                      *)
(***************************************************************************)
C3_GateInEveryCycle ==
    ~InitialPhase =>
        /\ (pc \in CycleEndPcs) => InTrace("gate")
        /\ (Len(applied) > 0 \/ \E e \in LinkEvents : InTrace(e)) => InTrace("gate")

(***************************************************************************)
(* C3, amended: in every cycle whose sensor read returns a snapshot the    *)
(* safety check is evaluated on it before any exchange, connect, fallback  *)
(* decision or actuation of the cycle; a cycle whose sensor read raises    *)
(* evaluates no check and only issues the fault handler's full stop, with  *)
(* no network operation and no fallback decision.                          *)
(***************************************************************************)
C3_GateFirstOnEverySnapshot ==
    ~InitialPhase =>
        /\ \A i \in 1..Len(trace) :
              (trace[i] \in LinkEvents) => \E j \in 1..(i - 1) : trace[j] = "gate"
        /\ (HasSnapshot /\ pc # "gate") => InTrace("gate")
        /\ (Len(applied) > 0 /\ ~InTrace("gate")) =>
               /\ ~HasSnapshot
               /\ \A i \in 1..Len(applied) : applied[i] = EmergencyStopCall("fault")
               /\ \A e \in LinkEvents : ~InTrace(e)

C3_Witness ==
    /\ pc = "timing"
    /\ InTrace("gate")
    /\ InTrace("exchange")
    /\ InTrace("fallback")
    /\ Len(applied) = 1

(***************************************************************************)
(* C4, as claimed: when the exchange of a connected cycle times out, the   *)
(* session stays open, the link stays connected and the loop is still      *)
(* connected at the end of that cycle.                                     *)
(***************************************************************************)
C4_TimeoutKeepsConnected ==
    (InTrace("TIMEOUT") /\ pc \in CycleEndPcs) =>
        /\ brain_connected
        /\ connected
        /\ sessions[Val(websocket)] = "open"
        /\ Val(websocket) \notin close_tasks

(***************************************************************************)
(* C5: when the exchange of a connected cycle finds the session closed or  *)
(* hits a transport fault, then in that cycle the link is marked           *)
(* disconnected, the loop is isolated, the isolation start time is set,    *)
(* the close of the session is requested, and the command handed to the    *)
(* hardware is the fallback's for that cycle's snapshot.                   *)
(***************************************************************************)
SessionLost ==
    \/ InTrace("CLOSED")
    \/ InTrace("MALFORMED")
    \/ InTrace("SEND_CLOSED")
    \/ InTrace("SEND_ERROR")

C5_SessionLostIsolates ==
    (SessionLost /\ pc \in {"status", "timing", "except", "recover", "crashed"}) =>
        /\ ~connected
        /\ ~brain_connected
        /\ ~IsNone(isolation_start_time)
        /\ (Val(websocket) \in close_tasks \/ sessions[Val(websocket)] = "closed")
        /\ Len(applied) >= 1
        /\ applied[1] = ExecuteCall("fallback", Some(decide_action(sensor_data)))
        /\ \A i \in 1..Len(applied) : applied[i].call = "execute_motor_commands" => i = 1

C5_Witness ==
    /\ pc = "timing"
    /\ InTrace("CLOSED")
    /\ ~brain_connected
    /\ isolation_start_time = Some(now)
    /\ applied = <<ExecuteCall("fallback", Some(avoid_obstacle))>>

(***************************************************************************)
(* C6: a cycle that completes without a fault hands the hardware exactly   *)
(* one command: the full stop on danger, else the brain's command when     *)
(* the loop was connected and the exchange returned one, else the          *)
(* fallback's; the fallback is asked only when the link produced no        *)
(* command, and no cycle without danger ends with nothing applied.         *)
(***************************************************************************)
ExpectedCall ==
    IF SnapshotCritical THEN EmergencyStopCall("safety")
    ELSE IF was_connected /\ InTrace("MOTOR_COMMANDS")
         THEN ExecuteCall("brain", motor_commands)
         ELSE ExecuteCall("fallback", Some(decide_action(sensor_data)))

C6_OneSourcePerCycle ==
    /\ (pc \in {"cooldown", "timing"}) => applied = <<ExpectedCall>>
    /\ InTrace("fallback") =>
          /\ ~InTrace("MOTOR_COMMANDS")
          /\ ~was_connected \/ InTrace("exchange")
    /\ (InTrace("MOTOR_COMMANDS") /\ pc \in {"apply_brain", "status", "timing"}) =>
          ~IsNone(motor_commands)
    /\ (pc \in CycleEndPcs /\ HasSnapshot /\ ~SnapshotCritical) => Len(applied) >= 1

C6_Witness ==
    /\ pc = "timing"
    /\ InTrace("MOTOR_COMMANDS")
    /\ applied = <<ExecuteCall("brain", Some(MotorCommand(1700, 1500, 1500, FALSE)))>>

(***************************************************************************)
(* C7, as claimed: at every cycle boundary after the initial connection    *)
(* phase, isolation_start_time is set exactly when brain_connected is      *)
(* False.                                                                  *)
(***************************************************************************)
C7_StartTimeIffDisconnected ==
    (pc = "loop_top" /\ ~InitialPhase) =>
        (~IsNone(isolation_start_time) <=> ~brain_connected)

(***************************************************************************)
(* C8, as claimed: within one isolation episode the start time is written  *)
(* exactly once and keeps its value, and it is cleared in exactly the step *)
(* in which a reconnection succeeds.                                       *)
(***************************************************************************)
ReconnectSucceeds == caller = "reconnect" /\ ~brain_connected /\ brain_connected'

C8_StartTimeWrittenOncePerEpisode ==
    [][ /\ (~InitialPhase /\ ~brain_connected /\ ~brain_connected'
              /\ ~IsNone(isolation_start_time))
           => isolation_start_time' = isolation_start_time
        /\ (~IsNone(isolation_start_time) /\ IsNone(isolation_start_time'))
           => ReconnectSucceeds
        /\ ReconnectSucceeds
           => (IsNone(isolation_start_time') /\ iso_writes = 1) ]_vars

(***************************************************************************)
(* C9, as claimed: every span of ReconnectCadence consecutive cycles that  *)
(* the loop starts isolated contains a connect() attempt, danger cycles    *)
(* among them or not (stated here for the runs in which nothing faults).   *)
(***************************************************************************)
C9_AttemptInEverySpan ==
    (communication_errors = 0) => no_attempt_run < ReconnectCadence

(***************************************************************************)
(* C9, amended: an isolated cycle whose counter is a multiple of the       *)
(* cadence and that reaches the reconnection step (no danger, no fault     *)
(* before it) makes a connect() attempt; a span of ReconnectCadence        *)
(* isolated cycles is without an attempt only if its cycle at the multiple *)
(* was a danger cycle or was cut short by a fault.                         *)
(***************************************************************************)
C9_AttemptWhenDueCycleCompletes ==
    /\ (pc = "timing" /\ ~was_connected /\ loop_count % ReconnectCadence = 0)
          => InTrace("connect")
    /\ (no_attempt_run >= ReconnectCadence) => cadence_cut

C9_Witness ==
    /\ pc = "timing"
    /\ ~was_connected
    /\ loop_count = ReconnectCadence
    /\ no_attempt_run = ReconnectCadence - 1
    /\ InTrace("connect")

(***************************************************************************)
(* C10, as claimed: when a reconnection succeeds the loop becomes          *)
(* connected and the isolation duration it reports is the time elapsed     *)
(* since the episode began, never negative, also for the episode that      *)
(* began with the failure of the initial connection phase.                 *)
(***************************************************************************)
C10_ReportedDurationIsElapsed ==
    [][ ReconnectSucceeds =>
            /\ isolation_duration' = Some(now - Val(episode_begin))
            /\ Val(isolation_duration') >= 0 ]_vars

(***************************************************************************)
(* C11, as claimed: a fault raised in a cycle is caught in that cycle, the *)
(* full stop of the handler is the last hardware command of the cycle,     *)
(* communication_errors grows by exactly one and the loop goes on to its   *)
(* recovery pause and the next cycle, also when the full stop itself       *)
(* raises.                                                                 *)
(***************************************************************************)
C11_FaultCaughtLoopContinues ==
    [][ (pc = "except" /\ pc' \notin {"except", "exited"}) =>
            /\ pc' = "recover"
            /\ communication_errors' = communication_errors + 1
            /\ applied'[Len(applied')] = EmergencyStopCall("fault") ]_vars

(***************************************************************************)
(* C12: connect() always returns to its caller.  A successful call leaves  *)
(* the link connected with connection_attempts 0 and the last contact at   *)
(* the current time; a failed call, the failed close of a previous session *)
(* included, adds exactly one to connection_attempts and leaves            *)
(* message_count and the last contact time as they were.                   *)
(***************************************************************************)
InConnect == pc \in {"connect_close", "connect_open"}

C12_ConnectReturnsAndCounts ==
    [][ (InConnect /\ pc' \notin {pc, "exited"}) =>
            /\ pc' \in {"connect_open", "connect_ret"}
            /\ message_count' = message_count
            /\ (pc' = "connect_open") =>
                  UNCHANGED <<connected, connection_attempts, last_successful_contact>>
            /\ (pc' = "connect_ret" /\ success') =>
                  /\ connected'
                  /\ connection_attempts' = 0
                  /\ last_successful_contact' = now
            /\ (pc' = "connect_ret" /\ ~success') =>
                  /\ connection_attempts' = connection_attempts + 1
                  /\ last_successful_contact' = last_successful_contact ]_vars

\* a reconnection whose close of the previous session failed
C12_Witness ==
    /\ pc = "connect_ret"
    /\ caller = "reconnect"
    /\ ~success
    /\ ~IsNone(websocket)
    /\ sessions[Val(websocket)] = "open"
    /\ connection_attempts = 1

(***************************************************************************)
(* C13: when recv() yields an ERROR reply, a reply of another kind or no   *)
(* reply in time, send_sensors_get_commands returns None and the link is   *)
(* as before: still connected, the same session handle, the session, the   *)
(* failure count, message_count and the last contact time untouched.       *)
(***************************************************************************)
NoCommandKinds == {"ERROR", "OTHER", "TIMEOUT"}

C13_NoCommandKeepsSession ==
    [][ (pc = "exchange_recv" /\ ~IsNone(last_reply')
            /\ Val(last_reply').kind \in NoCommandKinds) =>
            /\ IsNone(motor_commands')
            /\ connected /\ connected'
            /\ websocket' = websocket
            /\ sessions' = sessions
            /\ connection_attempts' = connection_attempts
            /\ message_count' = message_count
            /\ last_successful_contact' = last_successful_contact ]_vars

C13_Witness ==
    /\ pc = "disconnect"
    /\ last_reply = Some([kind |-> "ERROR", data |-> {}])
    /\ IsNone(motor_commands)
    /\ connected
    /\ sessions[Val(websocket)] = "open"

(***************************************************************************)
(* C14: for a MOTOR_COMMANDS reply with any subset of the four fields, the *)
(* command returned carries the reply's value in each field present and    *)
(* the neutral default (1500, 1500, 1500, False) in each field absent, and *)
(* the exchange adds one to message_count and sets the last contact time   *)
(* to the current time.                                                    *)
(***************************************************************************)
C14_MissingFieldsNeutral ==
    [][ (pc = "exchange_recv" /\ ~IsNone(last_reply')
            /\ Val(last_reply').kind = "MOTOR_COMMANDS") =>
            LET d == Val(last_reply').data
            IN /\ motor_commands' = Some(
                      [motor_left_pwm |-> IF "motor_left_pwm" \in d THEN 1700 ELSE 1500,
                       motor_right_pwm |-> IF "motor_right_pwm" \in d THEN 1300 ELSE 1500,
                       servo_camera_pwm |-> IF "servo_camera_pwm" \in d THEN 1600 ELSE 1500,
                       buzzer_active |-> "buzzer_active" \in d])
               /\ message_count' = message_count + 1
               /\ last_successful_contact' = now ]_vars

C14_Witness ==
    /\ pc = "apply_brain"
    /\ last_reply = Some([kind |-> "MOTOR_COMMANDS", data |-> {"motor_left_pwm"}])
    /\ motor_commands = Some(MotorCommand(1700, 1500, 1500, FALSE))
    /\ message_count = 1

(***************************************************************************)
(* C15, as claimed: once disconnect() has returned or failed, the link's   *)
(* connected flag is False, whether the close ran, failed, could not be    *)
(* scheduled or there was no session to close.                             *)
(***************************************************************************)
C15_DisconnectClearsFlag ==
    (pc \in {"disconnect_done", "disconnect_raised"}) => ~connected

(***************************************************************************)
(* C16: decide_action maps every snapshot to the command of the first rule *)
(* that matches: distance below 30 gives the turn (1400, 1600), else a     *)
(* battery below the fallback's low threshold gives the hold (1500, 1500), *)
(* else slow forward (1530, 1530); the command the loop gets depends on    *)
(* the snapshot alone, not on earlier calls or on the fallback's own       *)
(* isolation_start_time.                                                   *)
(***************************************************************************)
FirstMatchingRule(s) ==
    CASE s.ultrasonic_distance < 30 ->
           MotorCommand(1400, 1600, 1500, FALSE)
      [] s.ultrasonic_distance >= 30 /\ s.battery_voltage < FALLBACK_BATTERY_LOW ->
           MotorCommand(1500, 1500, 1500, FALSE)
      [] OTHER ->
           MotorCommand(1530, 1530, 1500, FALSE)

C16_FallbackFirstMatchingRule ==
    /\ \A s \in Snapshots : decide_action(s) = FirstMatchingRule(s)
    /\ (pc = "apply_auto") => motor_commands = Some(FirstMatchingRule(sensor_data))

\* a later call, near an obstacle and with a low battery
C16_Witness ==
    /\ pc = "apply_auto"
    /\ cycles = 2
    /\ sensor_data = SensorReading(BATTERY_CRITICAL, OBSTACLE_CRITICAL)
    /\ ~IsNone(auto_isolation_start)
    /\ Val(auto_isolation_start) < now
    /\ motor_commands = Some(MotorCommand(1400, 1600, 1500, FALSE))

(***************************************************************************)
(* C17, as claimed: every suspension of the coroutine ends: whatever the   *)
(* peer does, the loop leaves each point at which it awaits.               *)
(***************************************************************************)
C17_EverySuspensionEnds ==
    \A p \in AwaitPoints : (pc = p) ~> (pc # p)

(***************************************************************************)
(* C18, as claimed: a shutdown request ends the process only between two   *)
(* cycles, and at the end the hardware backend's shutdown has been called  *)
(* and no session is left open.                                            *)
(***************************************************************************)
C18_ShutdownBetweenCycles ==
    [][ (~InitialPhase /\ pc' = "exited") =>
            /\ pc = "loop_top"
            /\ applied' = <<ShutdownCall>>
            /\ \A s \in SessionIds : sessions'[s] # "open" ]_vars

(***************************************************************************)
(* C19, as claimed: after every cycle, if its work took less than the      *)
(* target period the next cycle starts no earlier than one period after    *)
(* the cycle started, and if its work took longer the next cycle starts    *)
(* with no wait at all.                                                    *)
(***************************************************************************)
C19_EveryCycleKeepsPeriod ==
    (pc = "loop_top" /\ cycles > 0) =>
        /\ (loop_time < TARGET_MS) => (loop_time + slept >= TARGET_MS)
        /\ (loop_time > TARGET_MS) => (slept = 0)

(***************************************************************************)
(* C19, amended: a cycle that reaches the timing step waits the remainder  *)
(* of the target period when its work took less, and does not wait when    *)
(* its work took the period or longer; a danger cycle waits its cooldown   *)
(* and a fault cycle its recovery pause whatever their work took; so after *)
(* every cycle the next one starts no earlier than one period after the    *)
(* cycle started.                                                          *)
(***************************************************************************)
C19_TimedCycleKeepsPeriod ==
    [][ (~InitialPhase /\ pc # "loop_top" /\ pc' = "loop_top") =>
            /\ loop_time' + slept' >= TARGET_MS
            /\ (pc = "timing" /\ loop_time' < TARGET_MS) =>
                  (loop_time' + slept' = TARGET_MS)
            /\ (pc = "timing" /\ loop_time' >= TARGET_MS) => (slept' = 0)
            /\ (pc = "cooldown") => (slept' = COOLDOWN_MS)
            /\ (pc = "recover") => (slept' = RECOVERY_MS) ]_vars

C19_Witness ==
    /\ pc = "loop_top"
    /\ cycles = 1
    /\ communication_errors = 0
    /\ loop_time = TARGET_MS \div 2
    /\ slept = TARGET_MS \div 2

DangerCycle == HasSnapshot /\ SnapshotCritical
LinkBookkeeping ==
    <<brain_connected, isolation_start_time, brain_response_times,
      connected, connection_attempts, message_count, last_successful_contact>>
SkippedByDanger == {"exchange_send", "exchange_recv", "apply_brain",
                    "disconnect", "autonomous", "apply_auto", "reconnect",
                    "connect_close", "connect_open", "connect_ret",
                    "status", "timing"}

(***************************************************************************)
(* C21, as claimed: no step of a danger cycle changes brain_connected,     *)
(* isolation_start_time, the latency window, communication_errors or the   *)
(* link's connected flag, failure count, success count and last contact,   *)
(* and a danger cycle makes no reconnection attempt, no status report and  *)
(* no timing wait.                                                         *)
(***************************************************************************)
C21_DangerCycleKeepsBookkeeping ==
    [][ DangerCycle =>
            /\ UNCHANGED LinkBookkeeping
            /\ UNCHANGED communication_errors
            /\ pc' \notin SkippedByDanger ]_vars

(***************************************************************************)
(* C21, amended: no step of a danger cycle changes brain_connected,        *)
(* isolation_start_time, the latency window or the link's connected flag,  *)
(* failure count, success count and last contact, and a danger cycle makes *)
(* no reconnection attempt, no status report and no timing wait;           *)
(* communication_errors changes only where the full stop of the safety     *)
(* override raised and the fault handler counts the fault, by one.         *)
(***************************************************************************)
C21_DangerCycleKeepsLinkBookkeeping ==
    [][ DangerCycle =>
            /\ UNCHANGED LinkBookkeeping
            /\ pc' \notin SkippedByDanger
            /\ communication_errors' =
                  IF pc = "except" /\ pc' = "recover"
                  THEN communication_errors + 1
                  ELSE communication_errors
            /\ (pc = "except") =>
                  (Len(applied) >= 1 /\ applied[1] = EmergencyStopCall("safety")) ]_vars

C21_Witness ==
    /\ pc = "cooldown"
    /\ DangerCycle
    /\ loop_count = ReconnectCadence
    /\ ~brain_connected
    /\ communication_errors = 0
    /\ applied = <<EmergencyStopCall("safety")>>

\* send_sensors_get_commands returns to _brain_interaction in this step
ExchangeReturned ==
    /\ pc \in {"exchange_send", "exchange_recv"}
    /\ pc' \notin {"exchange_send", "exchange_recv", "exited"}

(***************************************************************************)
(* C22: brain_response_times never holds more than WINDOW_SIZE samples; a  *)
(* sample added to a full window discards the oldest one, so the window    *)
(* holds the most recent samples in their order of arrival.  A sample is   *)
(* added where the exchange returns, and the window changes nowhere else.  *)
(***************************************************************************)
C22_WindowKeepsLatestSamples ==
    [][ /\ Len(brain_response_times') <= WINDOW_SIZE
        /\ IF ExchangeReturned
           THEN LET old == brain_response_times
                    new == brain_response_times'
                    sample == now - brain_start'
                IN IF Len(old) < WINDOW_SIZE
                   THEN new = Append(old, sample)
                   ELSE /\ Len(new) = WINDOW_SIZE
                        /\ new[WINDOW_SIZE] = sample
                        /\ \A i \in 1..(WINDOW_SIZE - 1) : new[i] = old[i + 1]
           ELSE UNCHANGED brain_response_times ]_vars

C22_Witness ==
    /\ pc = "apply_brain"
    /\ Len(brain_response_times) = WINDOW_SIZE
    /\ brain_response_times[1] = 0
    /\ brain_response_times[WINDOW_SIZE] = 1
    /\ loop_count = LateStart + 1

(***************************************************************************)
(* C23, as claimed: the latency window gets a sample exactly in the steps  *)
(* in which the exchange of a connected cycle returned a command; an       *)
(* exchange that returns no command adds none.                             *)
(***************************************************************************)
C23_SampleIffCommand ==
    [][ (brain_response_times' # brain_response_times) <=>
            (pc = "exchange_recv" /\ was_connected /\ ~IsNone(motor_commands')) ]_vars

(***************************************************************************)
(* Vocabulary of the status report: what a run shows of the loop besides   *)
(* its console output, and whether a report is due in the cycle.           *)
(***************************************************************************)
LoopState == <<loopVars, linkVars, auto_isolation_start, applied,
               motor_commands, sensor_data, sessions, close_tasks>>
ReportDue == StatusDue(loop_count) \/ DetailDue(loop_count)
ReportStep == pc = "status" /\ pc' # "exited"

(***************************************************************************)
(* C24, as claimed: the status report is observational only.  Whether a    *)
(* report is due and whatever get_hardware_info() and get_status() return  *)
(* or raise, the step leaves the commands handed to the hardware and the   *)
(* loop's state as they are and the cycle goes on to its timing wait, so   *)
(* two runs that differ only there go on alike.                            *)
(***************************************************************************)
C24_ReportIsObservational ==
    [][ ReportStep => (UNCHANGED LoopState /\ pc' = "timing") ]_vars

(***************************************************************************)
(* C24, amended: a status report whose queries return is observational     *)
(* only: the step leaves the commands handed to the hardware and the       *)
(* loop's state as they are and the cycle goes on to its timing wait, due  *)
(* or not.  A report is the only place where the step can differ: a query  *)
(* of a due report that raises takes the cycle to the fault handler, which *)
(* commands a full stop, counts the fault and pauses for the recovery time *)
(* instead of the timing wait.                                             *)
(***************************************************************************)
C24_ReportObservationalUnlessItRaises ==
    [][ /\ ReportStep =>
              /\ UNCHANGED LoopState
              /\ pc' \in {"timing", "except"}
              /\ ~ReportDue => (pc' = "timing")
        /\ (pc = "except" /\ pc' = "recover" /\ Len(trace) >= 1
               /\ trace[Len(trace)] = "status") =>
              /\ applied' = Append(applied, EmergencyStopCall("fault"))
              /\ communication_errors' = communication_errors + 1 ]_vars

C24_Witness ==
    /\ pc = "timing"
    /\ InTrace("status")
    /\ loop_count = DETAIL_CADENCE
    /\ applied # << >>
    /\ communication_errors = 0

(***************************************************************************)
(* C25: at every start of a cycle after the initial connection phase the   *)
(* loop's brain_connected and the link's connected flag are equal.         *)
(***************************************************************************)
C25_FlagsAgreeAtCycleStart ==
    (pc = "loop_top" /\ ~InitialPhase) => (brain_connected <=> connected)

C25_Witness ==
    /\ pc = "loop_top"
    /\ cycles = MaxCycles
    /\ ~brain_connected
    /\ ~connected
    /\ ~IsNone(websocket)
    /\ sessions[Val(websocket)] = "open"
    /\ communication_errors = 1

(***************************************************************************)
(* C26: connect() is called only while the link is not connected: in the   *)
(* initial phase, before any session was opened, or in a cycle that        *)
(* started isolated and in which no disconnect was detected; so the        *)
(* session connect() closes first is never one in use.                     *)
(***************************************************************************)
C26_ConnectOnlyWhileNotConnected ==
    (pc \in {"connect_close", "connect_open"}) =>
        /\ ~connected
        /\ ~brain_connected
        /\ ~InTrace("disconnect")
        /\ ~InTrace("exchange")
        /\ IF InitialPhase
           THEN IsNone(websocket) /\ \A s \in SessionIds : sessions[s] = "unused"
           ELSE caller = "reconnect" /\ ~was_connected /\ pc # "loop_top"

C26_Witness ==
    /\ pc = "connect_close"
    /\ caller = "reconnect"
    /\ ~IsNone(websocket)
    /\ sessions[Val(websocket)] = "open"
    /\ Val(websocket) \in close_tasks
    /\ ~InTrace("connect")

(***************************************************************************)
(* C29: the initial connection phase ends after at most three connect()    *)
(* attempts: at the first attempt that succeeds, with the loop connected,  *)
(* or after the third that fails, with the loop isolated; the first cycle  *)
(* of the loop then runs, and until the phase has ended no sensor is read  *)
(* and no command is handed to the hardware.                               *)
(***************************************************************************)
C29_InitialPhaseEnds ==
    /\ [](InitialPhase =>
             /\ attempt <= max_attempts
             /\ connection_attempts =
                   IF pc = "connect_ret"
                   THEN (IF success THEN 0 ELSE attempt + 1)
                   ELSE attempt
             /\ (pc \in {"connect_close", "connect_open", "connect_ret"}) =>
                   (attempt < max_attempts)
             /\ success => (pc = "connect_ret")
             /\ loop_count = 0
             /\ cycles = 0
             /\ ~HasSnapshot
             /\ ~InTrace("sense")
             /\ applied = << >>)
    /\ [][ /\ (InitialPhase /\ pc = "connect_ret" /\ success) => ~InitialPhase'
           /\ (InitialPhase /\ ~InitialPhase') =>
                 /\ pc' = "loop_top"
                 /\ IF pc = "connect_ret"
                    THEN success /\ brain_connected' /\ connected
                    ELSE /\ pc = "attempt"
                         /\ attempt = max_attempts
                         /\ ~brain_connected' /\ ~connected ]_vars
    /\ <>(~InitialPhase)
    /\ <>(~InitialPhase /\ cycles = 1 /\ pc = "sense")

C29_Witness ==
    /\ pc = "sense"
    /\ cycles = 1
    /\ connection_attempts = max_attempts
    /\ ~brain_connected
    /\ now = 1

(***************************************************************************)
(* C28: once the brain server accepts every connect() and answers every    *)
(* exchange in time with MOTOR_COMMANDS and no cycle is a danger or fault  *)
(* cycle, a loop that is isolated becomes connected, a loop that is        *)
(* connected stays connected, and every cycle that starts connected hands  *)
(* the hardware the command decoded from the reply, and nothing else.      *)
(***************************************************************************)
GoodEra == cycles >= GoodFrom \/ (cycles = GoodFrom - 1 /\ pc = "loop_top")
ReplyCommand == Some(DecodeMotorCommands(Val(last_reply).data))

InUse(s) == connected /\ websocket = Some(s)
OpenSessions == {s \in SessionIds : sessions[s] = "open"}
AbandonedOpen == {s \in OpenSessions : ~InUse(s)}
ProcessEnded == pc \in {"exited", "crashed"}

====
